---- MODULE Spec2Model ----
(***************************************************************************)
(* Model of periph's GPIO input conditioning                               *)
(* (experimental/conn/gpio/gpioutil): the debounced pin decorator          *)
(* (Debounce, debounced.In, debounced.Read, debounced.WaitForEdge,         *)
(* isDenoising, isDebouncing) on top of a raw gpio.PinIO and of the        *)
(* package clock `now`; the nesting of pin decorators and Real(); the      *)
(* pollEdge decorator (PollEdge, pollEdge.In, pollEdge.WaitForEdge) with   *)
(* its timer callbacks; and the bcm283x rasteriser raster32.  Each         *)
(* component has its own specification; the variables of the others keep   *)
(* a fixed value in it.                                                    *)
(*                                                                         *)
(* Time is counted in whole units: a time.Time is a natural number and a   *)
(* time.Duration is an integer.  Levels are booleans as in gpio.Level      *)
(* (Low = false, High = true).                                             *)
(***************************************************************************)
EXTENDS Integers, Sequences, FiniteSets, TLC

\* ------------------------------------------------------------------ bounds
\* Largest value of the clock.
MaxTime == 3
\* Largest denoise / debounce duration handed to Debounce.
MaxDur == 2

\* ------------------------------------------------- constants of conn/gpio
Low == FALSE
High == TRUE
Level == {Low, High}

NoEdge == 0
RisingEdge == 1
FallingEdge == 2
BothEdges == 3
Edge == {NoEdge, RisingEdge, FallingEdge, BothEdges}

PullNoChange == 0
Float == 1
PullDown == 2
PullUp == 3
Pull == {PullNoChange, Float, PullDown, PullUp}

\* Errors the raw pin's In can return; "nil" is success.
Errors == {"nil", "errIO", "errBusy"}

\* The timeouts handed to WaitForEdge: -1 waits for ever, 0 polls.
Timeouts == {-1, 0, 1}

VARIABLES
    clock,      \* the value the next call of now() returns
    L,          \* raw pin: its level (gpiotest.Pin.L)
    rawSince,   \* raw pin: the time at which L took its present value
    wrapped,    \* a debounced object has been built by Debounce
    denoise,    \* debounced.denoise
    debounce,   \* debounced.debounce
    edge,       \* debounced.edge
    steady,     \* debounced.steady
    lastSteady, \* debounced.lastSteady
    lastGlitch, \* debounced.lastGlitch
    op          \* the call that has just returned, with what it returned
                \* and how often it called In, Read and now()

VARIABLES
    objs,       \* the pin objects built so far: raw pins and decorators
    got         \* the last call of Real(): the pin asked and the pin returned

realVars == <<objs, got>>

VARIABLES
    pedge,      \* pollEdge.edge
    die,        \* number of signals in pollEdge.die (capacity 1)
    curr,       \* the local curr of pollEdge.WaitForEdge
    pc,         \* where the caller of pollEdge is: "idle" or in the "loop"
    timer,      \* the time.AfterFunc timer of the WaitForEdge in progress
    stale,      \* callbacks of returned calls that have yet to send on die
    literal,    \* the pollEdge is a struct literal with an edge, not PollEdge's
    call        \* the last call made on the pollEdge and what it returned

pollVars == <<pedge, die, curr, pc, timer, stale, literal, call>>

VARIABLES
    ras,        \* a call of raster32: its arguments, then also its results
    bcall       \* a call of raster or of copyStreamToDMABuf, in the same way

rasterVars == <<ras, bcall>>

VARIABLES
    controller, \* dma.controller: 0 for nil, or the number of a Controller
    dmu,        \* dma.mu: 0 when free, or the goroutine that holds it
    dcall,      \* for each goroutine, its call of dma.Register or dma.Get
    firstOk     \* the first Register that returned nil, once there is one

dmaVars == <<controller, dmu, dcall, firstOk>>

VARIABLES
    inhibited,  \* fs.inhibited
    used,       \* fs.used
    fmu,        \* fs.mu: 0 when free, or the goroutine that holds it
    fcall,      \* for each goroutine, its call of fs.Open or fs.Inhibit
    inhibitRet, \* a call of Inhibit has returned
    opened      \* a call of Open has come back from os.OpenFile

fsVars == <<inhibited, used, fmu, fcall, inhibitRet, opened>>

VARIABLES
    cs,         \* spics: the level of the chip-select pin ConnGPIO.cs
    active,     \* spics: ConnGPIO.active
    scall       \* spics: the call in progress or just returned on the ConnGPIO

spiVars == <<cs, active, scall>>

VARIABLES
    AllHeaders, \* pinreg: internal.AllHeaders, header name to its pins
    ByPin,      \* pinreg: internal.ByPin, pin name to its position
    rcall       \* pinreg: the call of Register or Unregister just returned

regVars == <<AllHeaders, ByPin, rcall>>

hostVars == <<dmaVars, fsVars, spiVars, regVars>>

\* The variables of debounced, of the raw pin it wraps and of the clock.
debVars == <<clock, L, rawSince, wrapped, denoise, debounce, edge, steady,
             lastSteady, lastGlitch, op>>

vars == <<clock, L, rawSince, wrapped, denoise, debounce, edge, steady,
          lastSteady, lastGlitch, op, objs, got,
          pedge, die, curr, pc, timer, stale, literal, call, ras, bcall,
          controller, dmu, dcall, firstOk,
          inhibited, used, fmu, fcall, inhibitRet, opened,
          cs, active, scall, AllHeaders, ByPin, rcall>>

pinVars == <<L, rawSince>>
confVars == <<wrapped, denoise, debounce>>
filterVars == <<steady, lastSteady, lastGlitch>>

\* No call has returned since the environment last moved.  The fields:
\*   name            the operation
\*   den, deb, e     its denoise, debounce and edge arguments
\*   ret             the level (Read, In) or the boolean (WaitForEdge) returned
\*   err, pin        the error and the pin returned
\*   inErr, inEdge   what the raw pin's In returned and the edge it was given
\*   ins, reads, nows  calls of the raw pin's In, of its Read, and of now()
\*   zap             Read has set a later lastGlitch back to lastSteady
Idle ==
    [name |-> "none", den |-> 0, deb |-> 0, e |-> NoEdge, ret |-> FALSE,
     err |-> "nil", pin |-> "none", inErr |-> "nil", inEdge |-> NoEdge,
     ins |-> 0, reads |-> 0, nows |-> 0, zap |-> FALSE]

\* ---------------------------------------------------------------- raw pin
\* gpiotest.Pin.In: a pull-down forces the level Low, a pull-up High.
Pin_In(pull, l) ==
    IF pull = PullDown THEN Low
    ELSE IF pull = PullUp THEN High
    ELSE l

\* The raw pin's WaitForEdge(timeout): what it may return (ok) and the
\* level the pin has then (nl).  It reports no edge only when a timeout
\* was given, and the level is what it was when no edge came.  The time
\* the call blocks is the Tick steps that precede its return.
Pin_WaitForEdge(timeout, ok, nl) ==
    /\ (timeout = -1) => ok
    /\ ~ok => nl = L

\* The time at which the raw level took its value, when it is l at time t.
Since(l, t) == IF l # L THEN t ELSE rawSince

\* --------------------------------------------------------- debounced.Read
\* A Read whose fast path leaves lastGlitch as it is.
debounced_Read_KeepsGlitch(l, n) ==
    IF l = steady
    THEN [steady |-> steady, lastSteady |-> lastSteady,
          lastGlitch |-> lastGlitch, ret |-> steady, nows |-> 0]
    ELSE LET delta == lastGlitch - lastSteady IN
         IF delta >= 0
         THEN IF delta >= denoise
              THEN [steady |-> l, lastSteady |-> n, lastGlitch |-> lastGlitch,
                    ret |-> l, nows |-> 1]
              ELSE [steady |-> steady, lastSteady |-> lastSteady,
                    lastGlitch |-> n, ret |-> steady, nows |-> 1]
         ELSE IF -delta >= debounce
              THEN [steady |-> l, lastSteady |-> n, lastGlitch |-> lastGlitch,
                    ret |-> l, nows |-> 1]
              ELSE [steady |-> steady, lastSteady |-> lastSteady,
                    lastGlitch |-> lastGlitch, ret |-> steady, nows |-> 1]

\* The fields Read leaves behind and the level it returns, for the raw
\* level l and the value n that now() returns if Read calls it.
debounced_Read(l, n) ==
    IF l = steady
    THEN [steady |-> steady, lastSteady |-> lastSteady,
          lastGlitch |-> IF lastGlitch > lastSteady THEN lastSteady
                         ELSE lastGlitch,
          ret |-> steady, nows |-> 0]
    ELSE LET delta == lastGlitch - lastSteady IN
         IF delta >= 0
         THEN IF delta >= denoise
              THEN [steady |-> l, lastSteady |-> n, lastGlitch |-> lastGlitch,
                    ret |-> l, nows |-> 1]
              ELSE [steady |-> steady, lastSteady |-> lastSteady,
                    lastGlitch |-> n, ret |-> steady, nows |-> 1]
         ELSE IF -delta >= debounce
              THEN [steady |-> l, lastSteady |-> n, lastGlitch |-> lastGlitch,
                    ret |-> l, nows |-> 1]
              ELSE [steady |-> steady, lastSteady |-> lastSteady,
                    lastGlitch |-> lastGlitch, ret |-> steady, nows |-> 1]

\* d.Read() by the application.
Read ==
    /\ wrapped
    /\ LET r == debounced_Read(L, clock) IN
        /\ steady' = r.steady
        /\ lastSteady' = r.lastSteady
        /\ lastGlitch' = r.lastGlitch
        /\ op' = [Idle EXCEPT !.name = "Read", !.ret = r.ret, !.reads = 1,
                              !.nows = r.nows,
                              !.zap = /\ L = steady
                                      /\ lastGlitch > lastSteady
                                      /\ r.lastGlitch = lastSteady]
    /\ UNCHANGED <<clock, pinVars, confVars, edge>>

\* --------------------------------------------------------------- Debounce
\* A Debounce that configures the pin before it looks at the durations.
Debounce_ConfiguresFirst(den, deb, e, inErr) ==
    IF inErr # "nil" \/ (den = 0 /\ deb = 0)
    THEN /\ op' = [Idle EXCEPT !.name = "Debounce", !.den = den, !.deb = deb,
                               !.e = e, !.err = inErr,
                               !.pin = IF inErr # "nil" THEN "nil" ELSE "raw",
                               !.inErr = inErr, !.inEdge = BothEdges, !.ins = 1]
         /\ UNCHANGED <<clock, pinVars, confVars, edge, filterVars>>
    ELSE /\ wrapped' = TRUE
         /\ denoise' = den
         /\ debounce' = deb
         /\ edge' = e
         /\ steady' = L
         /\ lastSteady' = clock
         /\ lastGlitch' = clock
         /\ op' = [Idle EXCEPT !.name = "Debounce", !.den = den, !.deb = deb,
                               !.e = e, !.pin = "debounced",
                               !.inEdge = BothEdges, !.ins = 1, !.reads = 1,
                               !.nows = 1]
         /\ UNCHANGED <<clock, pinVars>>

\* A Debounce that reads the pin and the clock before it tests In's error.
Debounce_ReadsFirst(den, deb, e, inErr) ==
    IF den = 0 /\ deb = 0
    THEN /\ op' = [Idle EXCEPT !.name = "Debounce", !.den = den, !.deb = deb,
                               !.e = e, !.pin = "raw"]
         /\ UNCHANGED <<clock, pinVars, confVars, edge, filterVars>>
    ELSE IF inErr # "nil"
    THEN /\ op' = [Idle EXCEPT !.name = "Debounce", !.den = den, !.deb = deb,
                               !.e = e, !.err = inErr, !.pin = "nil",
                               !.inErr = inErr, !.inEdge = BothEdges,
                               !.ins = 1, !.reads = 1, !.nows = 1]
         /\ UNCHANGED <<clock, pinVars, confVars, edge, filterVars>>
    ELSE /\ wrapped' = TRUE
         /\ denoise' = den
         /\ debounce' = deb
         /\ edge' = e
         /\ steady' = L
         /\ lastSteady' = clock
         /\ lastGlitch' = clock
         /\ op' = [Idle EXCEPT !.name = "Debounce", !.den = den, !.deb = deb,
                               !.e = e, !.pin = "debounced",
                               !.inEdge = BothEdges, !.ins = 1, !.reads = 1,
                               !.nows = 1]
         /\ UNCHANGED <<clock, pinVars>>

\* Debounce(p, den, deb, e) on the raw pin p, whose In returns inErr.
\* In(PullNoChange, BothEdges) leaves the raw level as it is.
Debounce(den, deb, e, inErr) ==
    IF den = 0 /\ deb = 0
    THEN /\ op' = [Idle EXCEPT !.name = "Debounce", !.den = den, !.deb = deb,
                               !.e = e, !.pin = "raw"]
         /\ UNCHANGED <<clock, pinVars, confVars, edge, filterVars>>
    ELSE IF inErr # "nil"
    THEN /\ op' = [Idle EXCEPT !.name = "Debounce", !.den = den, !.deb = deb,
                               !.e = e, !.err = inErr, !.pin = "nil",
                               !.inErr = inErr, !.inEdge = BothEdges, !.ins = 1]
         /\ UNCHANGED <<clock, pinVars, confVars, edge, filterVars>>
    ELSE /\ wrapped' = TRUE
         /\ denoise' = den
         /\ debounce' = deb
         /\ edge' = e
         /\ steady' = L
         /\ lastSteady' = clock
         /\ lastGlitch' = clock
         /\ op' = [Idle EXCEPT !.name = "Debounce", !.den = den, !.deb = deb,
                               !.e = e, !.pin = "debounced",
                               !.inEdge = BothEdges, !.ins = 1, !.reads = 1,
                               !.nows = 1]
         /\ UNCHANGED <<clock, pinVars>>

\* ----------------------------------------------------------- debounced.In
\* An In that hands the edge asked for to the raw pin.
debounced_In_PassesEdge(pull, e, inErr) ==
    LET l == Pin_In(pull, L)
        r == debounced_Read(l, clock)
    IN  /\ L' = l
        /\ rawSince' = Since(l, clock)
        /\ edge' = e
        /\ steady' = r.ret
        /\ lastSteady' = clock
        /\ lastGlitch' = clock
        /\ op' = [Idle EXCEPT !.name = "In", !.e = e, !.ret = r.ret,
                              !.err = inErr, !.inErr = inErr,
                              !.inEdge = e, !.ins = 1, !.reads = 1,
                              !.nows = r.nows + 1]
        /\ UNCHANGED <<clock, confVars>>

\* d.In(pull, e), where the raw pin's In returns inErr.  The raw pin is
\* configured first, then the level is taken from d.Read() and both
\* timestamps are reset, whether or not the raw In failed.
debounced_In(pull, e, inErr) ==
    LET l == Pin_In(pull, L)
        r == debounced_Read(l, clock)
    IN  /\ L' = l
        /\ rawSince' = Since(l, clock)
        /\ edge' = e
        /\ steady' = r.ret
        /\ lastSteady' = clock
        /\ lastGlitch' = clock
        /\ op' = [Idle EXCEPT !.name = "In", !.e = e, !.ret = r.ret,
                              !.err = inErr, !.inErr = inErr,
                              !.inEdge = BothEdges, !.ins = 1, !.reads = 1,
                              !.nows = r.nows + 1]
        /\ UNCHANGED <<clock, confVars>>

\* -------------------------------------------------- debounced.WaitForEdge
\* A WaitForEdge that resynchronises the filter before it tests the result
\* of the raw wait.
debounced_WaitForEdge_SyncsFirst(ok, nl) ==
    /\ L' = nl
    /\ rawSince' = Since(nl, clock)
    /\ steady' = nl
    /\ lastSteady' = clock
    /\ lastGlitch' = clock
    /\ op' = [Idle EXCEPT !.name = "WaitForEdge", !.ret = ok, !.reads = 1,
                          !.nows = 1]
    /\ UNCHANGED <<clock, confVars, edge>>

\* A WaitForEdge that restarts the debounce window only (lastGlitch kept).
debounced_WaitForEdge_KeepsGlitch(ok, nl) ==
    IF ~ok
    THEN /\ op' = [Idle EXCEPT !.name = "WaitForEdge"]
         /\ UNCHANGED <<clock, pinVars, confVars, edge, filterVars>>
    ELSE /\ L' = nl
         /\ rawSince' = Since(nl, clock)
         /\ steady' = nl
         /\ lastSteady' = clock
         /\ op' = [Idle EXCEPT !.name = "WaitForEdge", !.ret = TRUE,
                               !.reads = 1, !.nows = 1]
         /\ UNCHANGED <<clock, confVars, edge, lastGlitch>>

\* d.WaitForEdge(timeout), at the moment it returns.  The raw pin's
\* WaitForEdge returns ok; when it reports an edge the raw level is nl.
\* d.edge is not consulted: the test on it has an empty body.
debounced_WaitForEdge(ok, nl) ==
    IF ~ok
    THEN /\ op' = [Idle EXCEPT !.name = "WaitForEdge"]
         /\ UNCHANGED <<clock, pinVars, confVars, edge, filterVars>>
    ELSE /\ L' = nl
         /\ rawSince' = Since(nl, clock)
         /\ steady' = nl
         /\ lastSteady' = clock
         /\ lastGlitch' = clock
         /\ op' = [Idle EXCEPT !.name = "WaitForEdge", !.ret = TRUE,
                               !.reads = 1, !.nows = 1]
         /\ UNCHANGED <<clock, confVars, edge>>

\* ------------------------------------------- isDenoising and isDebouncing
isDenoising ==
    LET delta == lastGlitch - lastSteady IN
    IF delta >= 0 /\ delta < denoise THEN denoise - delta ELSE 0

isDebouncing ==
    LET delta == lastSteady - lastGlitch IN
    IF delta >= 0 /\ delta < debounce THEN debounce - delta ELSE 0

\* ------------------------------------------------------------ environment
\* Time passes.
Tick ==
    /\ clock < MaxTime
    /\ clock' = clock + 1
    /\ op' = Idle
    /\ UNCHANGED <<pinVars, confVars, edge, filterVars>>

\* The signal on the raw pin changes level.
RawChange ==
    /\ L' = ~L
    /\ rawSince' = clock
    /\ op' = Idle
    /\ UNCHANGED <<clock, confVars, edge, filterVars>>

\* No decorator nesting is followed.
RealOff ==
    /\ objs = <<>>
    /\ got = [pin |-> 0, real |-> 0]

\* No call made on a pollEdge.  Of the fields, `at` is the level the pin had
\* when WaitForEdge returned; `follows` says that the call before this
\* WaitForEdge was a WaitForEdge whose last reading was the level the pin
\* had when it returned, and `last` is that reading.
NoCall == [name |-> "none", timeout |-> -1, ticks |-> 0, prev |-> Low,
           n |-> Low, ret |-> FALSE, done |-> FALSE, fired |-> FALSE,
           err |-> "nil", inErr |-> "nil", ins |-> 0,
           at |-> Low, follows |-> FALSE, last |-> Low]

\* The level the WaitForEdge that has returned read last: its last sample,
\* or its first reading when it took no sample.
LastRead == IF call.ticks = 0 THEN curr ELSE call.n

\* The pollEdge as PollEdge builds it: no edge armed, die empty.
PollOff ==
    /\ pedge = NoEdge
    /\ die = 0
    /\ curr = Low
    /\ pc = "idle"
    /\ timer = "none"
    /\ stale = 0
    /\ literal = FALSE
    /\ call = NoCall

\* No call of raster32 is followed.
RasterOff == ras = [stage |-> "off"]

\* No call of raster or of copyStreamToDMABuf is followed.
BcallOff == bcall = [stage |-> "off"]

\* Most goroutines that call into package dma, or into package fs.
MaxProcs == 2

Procs == 1..MaxProcs

\* No call made by a goroutine.
NoDmaCall == [pc |-> "idle", fn |-> "none", arg |-> 0,
              after |-> [done |-> FALSE, c |-> 0], ret |-> 0, err |-> "nil"]

\* Package dma as it is loaded: no controller, mu free.
DmaIdle ==
    /\ controller = 0
    /\ dmu = 0
    /\ dcall = [p \in Procs |-> NoDmaCall]
    /\ firstOk = [done |-> FALSE, c |-> 0]

NoFsCall == [pc |-> "idle", fn |-> "none", after |-> FALSE,
             afterOpen |-> FALSE, out |-> "none"]

\* Package fs as it is loaded: not inhibited, not used, mu free.
FsIdle ==
    /\ inhibited = FALSE
    /\ used = FALSE
    /\ fmu = 0
    /\ fcall = [p \in Procs |-> NoFsCall]
    /\ inhibitRet = FALSE
    /\ opened = FALSE

\* Nothing is called in the packages dma and fs.
\* No call made on a ConnGPIO.  The fields: the method, where it is ("idle"
\* once it has returned), the error returned, the calls of the wrapped
\* connection's Tx or TxPackets it made, the error of its first Out, and
\* the transfers the wrapped connection has made since New.
NoSpiCall == [fn |-> "none", pc |-> "idle", err |-> "nil", txs |-> 0,
              csErr |-> "nil", sent |-> 0]

\* The ConnGPIO as New builds it, over a chip-select pin that is Low.
SpiOff ==
    /\ cs = Low
    /\ active = Low
    /\ scall = NoSpiCall

\* A Go map with no key.
EmptyMap == [k \in {} |-> 0]

\* No call made on pinreg.
NoRegCall == [fn |-> "none", name |-> "", err |-> "nil"]

\* pinreg with no header registered.
RegOff ==
    /\ AllHeaders = EmptyMap
    /\ ByPin = EmptyMap
    /\ rcall = NoRegCall

HostOff == DmaIdle /\ FsIdle /\ SpiOff /\ RegOff

\* The components other than debounced stay as they are.
Others == UNCHANGED <<realVars, pollVars, rasterVars, hostVars>>

Init ==
    /\ clock = 0
    /\ L \in Level
    /\ rawSince = 0
    /\ wrapped = FALSE
    /\ denoise = 0
    /\ debounce = 0
    /\ edge = NoEdge
    /\ steady = Low
    /\ lastSteady = 0
    /\ lastGlitch = 0
    /\ op = Idle
    /\ RealOff
    /\ PollOff
    /\ RasterOff
    /\ BcallOff
    /\ HostOff

Next ==
    \/ \E den \in 0..MaxDur, deb \in 0..MaxDur, e \in Edge, inErr \in Errors :
          ~wrapped /\ Debounce(den, deb, e, inErr) /\ Others
    \/ \E pull \in Pull, e \in Edge, inErr \in Errors :
          wrapped /\ debounced_In(pull, e, inErr) /\ Others
    \/ \E timeout \in Timeouts, ok \in BOOLEAN, nl \in Level :
          /\ wrapped
          /\ Pin_WaitForEdge(timeout, ok, nl)
          /\ debounced_WaitForEdge(ok, nl)
          /\ Others
    \/ Read /\ Others
    \/ Tick /\ Others
    \/ RawChange /\ Others

Spec == Init /\ [][Next]_vars

\* The application keeps calling Read.
FairSpec == Spec /\ WF_vars(Read /\ Others)

\* =================================================== decorators and Real()
\* The pin objects are numbered from 1 in the order they are built.  A raw
\* pin (gpiotest.Pin, which has no Real method) has kind "Pin"; a decorator
\* has kind "debounced" or "pollEdge" and holds the pin it wraps in `inner`
\* (the embedded gpio.PinIO).  `root` is the raw pin a decorator was built
\* over, noted when it is built.

\* Most pin objects followed, raw pins included.
MaxObjs == 5

\* The raw pins the decorators are built over.
RawPins == <<[kind |-> "Pin", inner |-> 0, root |-> 1],
             [kind |-> "Pin", inner |-> 0, root |-> 2]>>

\* The type assertion p.PinIO.(gpio.RealPin): the pin has a Real method.
IsRealPin(o) == objs[o].kind \in {"debounced", "pollEdge"}

\* A Real that unwraps one level only.
debounced_Real_OneLevel(d) == objs[d].inner

RECURSIVE debounced_Real(_), pollEdge_Real(_)

\* r.Real() through the gpio.RealPin interface: the method of r's type.
Real(r) ==
    IF objs[r].kind = "debounced" THEN debounced_Real(r) ELSE pollEdge_Real(r)

debounced_Real(d) ==
    IF IsRealPin(objs[d].inner) THEN Real(objs[d].inner) ELSE objs[d].inner

pollEdge_Real(p) ==
    IF IsRealPin(objs[p].inner) THEN Real(objs[p].inner) ELSE objs[p].inner

\* Debounce(p, den, deb, e) with a non-zero duration on the pin p: a new
\* debounced object that holds p.
NestDebounce(p) ==
    /\ Len(objs) < MaxObjs
    /\ objs' = Append(objs, [kind |-> "debounced", inner |-> p,
                             root |-> objs[p].root])
    /\ UNCHANGED got

\* PollEdge(p, freq) on the pin p: a new pollEdge object that holds p.
NestPollEdge(p) ==
    /\ Len(objs) < MaxObjs
    /\ objs' = Append(objs, [kind |-> "pollEdge", inner |-> p,
                             root |-> objs[p].root])
    /\ UNCHANGED got

\* r.Real() on the decorator r.
CallReal(r) ==
    /\ IsRealPin(r)
    /\ got' = [pin |-> r, real |-> Real(r)]
    /\ UNCHANGED objs

\* The debounced pin of Spec is not built here.
DebOff ==
    /\ clock = 0
    /\ rawSince = 0
    /\ wrapped = FALSE
    /\ denoise = 0
    /\ debounce = 0
    /\ edge = NoEdge
    /\ steady = Low
    /\ lastSteady = 0
    /\ lastGlitch = 0
    /\ op = Idle

RealInit ==
    /\ objs = RawPins
    /\ got = [pin |-> 0, real |-> 0]
    /\ L = Low
    /\ DebOff
    /\ PollOff
    /\ RasterOff
    /\ BcallOff
    /\ HostOff

\* The pins' levels and filters play no part in Real().
RealFrame == UNCHANGED <<debVars, pollVars, rasterVars, hostVars>>

RealNext ==
    \/ \E p \in 1..Len(objs) : NestDebounce(p) /\ RealFrame
    \/ \E p \in 1..Len(objs) : NestPollEdge(p) /\ RealFrame
    \/ \E r \in 1..Len(objs) : CallReal(r) /\ RealFrame

SpecReal == RealInit /\ [][RealNext]_vars

\* ================================================================ pollEdge
\* One pollEdge over the raw pin of level L, called from one goroutine.  A
\* call of WaitForEdge is a Begin step (the drain of die, the first Read,
\* the timer and the ticker), then one step for every turn of its select
\* loop: a Sample on a tick of the ticker, or the receive from die.  The
\* timer of time.AfterFunc is "armed" until it fires, "running" while its
\* callback has started and has yet to send on die, "done" once it has
\* sent.  A callback that is running when its call returns is counted in
\* `stale`: Stop does not wait for it.  A timeout is a point in the
\* interleaving, not a number of steps.

\* Most samples one call of WaitForEdge takes.
MaxTicks == 3

\* Most callbacks of returned calls followed at a time.
MaxStale == 2

\* The deferred calls of WaitForEdge, in the order they run (t.Stop, the
\* timer's Stop, the drain of die), and what the call returns: b, after k
\* samples, the last of which read n.
Return(b, n, k) ==
    /\ pc' = "idle"
    /\ timer' = "none"
    /\ stale' = IF timer = "running" THEN stale + 1 ELSE stale
    /\ die' = 0
    /\ call' = [call EXCEPT !.ret = b, !.done = TRUE, !.prev = curr, !.n = n,
                            !.ticks = k, !.at = L,
                            !.fired = (timer \in {"running", "done"})]
    /\ UNCHANGED <<curr, pedge, literal, L>>

\* An In that keeps the edge when the wrapped pin fails.
pollEdge_In_KeepsEdgeOnError(pull, inErr) ==
    /\ pc = "idle"
    /\ pedge' = IF inErr = "nil" THEN NoEdge ELSE pedge
    /\ L' = Pin_In(pull, L)
    /\ call' = [NoCall EXCEPT !.name = "In", !.done = TRUE, !.err = inErr,
                              !.inErr = inErr, !.ins = 1]
    /\ UNCHANGED <<die, curr, pc, timer, stale, literal>>

\* p.In(pull), where the wrapped pin's In returns inErr.
pollEdge_In(pull, inErr) ==
    /\ pc = "idle"
    /\ pedge' = NoEdge
    /\ L' = Pin_In(pull, L)
    /\ call' = [NoCall EXCEPT !.name = "In", !.done = TRUE, !.err = inErr,
                              !.inErr = inErr, !.ins = 1]
    /\ UNCHANGED <<die, curr, pc, timer, stale, literal>>

\* A timer started for positive timeouts only.
StartsTimer_Positive(timeout) == timeout > 0

\* The test that guards time.AfterFunc.
StartsTimer(timeout) == timeout >= 0

\* WaitForEdge(timeout) up to its loop.
WaitForEdge_Begin(timeout) ==
    /\ pc = "idle"
    /\ die' = 0
    /\ curr' = L
    /\ timer' = IF StartsTimer(timeout) THEN "armed" ELSE "none"
    /\ pc' = "loop"
    /\ call' = [NoCall EXCEPT !.name = "WaitForEdge", !.timeout = timeout,
                              !.follows = /\ call.name = "WaitForEdge"
                                          /\ LastRead = call.at,
                              !.last = IF call.name = "WaitForEdge"
                                       THEN LastRead ELSE Low]
    /\ UNCHANGED <<pedge, stale, literal, L>>

\* A sample that reports every change of level when an edge is armed.
pollEdge_Sample_AnyChange(e, c, n) ==
    [ret |-> (n # c /\ e # NoEdge), curr |-> c]

\* The body of `case <-t.C` for the armed edge e, the level c in curr and
\* the level n just read: whether WaitForEdge returns true, and curr.
pollEdge_Sample(e, c, n) ==
    IF n # c
    THEN IF e = RisingEdge
         THEN IF n = High THEN [ret |-> TRUE, curr |-> c]
              ELSE [ret |-> FALSE, curr |-> n]
         ELSE IF e = FallingEdge
         THEN IF n = Low THEN [ret |-> TRUE, curr |-> c]
              ELSE [ret |-> FALSE, curr |-> n]
         ELSE IF e = BothEdges
         THEN [ret |-> TRUE, curr |-> c]
         ELSE [ret |-> FALSE, curr |-> c]
    ELSE [ret |-> FALSE, curr |-> c]

\* The select takes a tick of the ticker.
WaitForEdge_Sample ==
    /\ pc = "loop"
    /\ call.ticks < MaxTicks
    /\ LET r == pollEdge_Sample(pedge, curr, L) IN
        IF r.ret
        THEN Return(TRUE, L, call.ticks + 1)
        ELSE /\ curr' = r.curr
             /\ call' = [call EXCEPT !.ticks = @ + 1, !.prev = curr, !.n = L]
             /\ UNCHANGED <<pedge, die, pc, timer, stale, literal, L>>

\* The select takes the signal in die.
WaitForEdge_Die ==
    /\ pc = "loop"
    /\ die = 1
    /\ Return(FALSE, call.n, call.ticks)

\* The timeout of the call in progress elapses: its callback starts.
TimerFire ==
    /\ timer = "armed"
    /\ stale < MaxStale
    /\ timer' = "running"
    /\ UNCHANGED <<pedge, die, curr, pc, stale, literal, call, L>>

\* The callback of the call in progress sends on die.
TimerCallback ==
    /\ timer = "running"
    /\ die = 0
    /\ die' = 1
    /\ timer' = "done"
    /\ UNCHANGED <<pedge, curr, pc, stale, literal, call, L>>

\* The callback of a call that has returned sends on die.
StaleCallback ==
    /\ stale > 0
    /\ die = 0
    /\ die' = 1
    /\ stale' = stale - 1
    /\ UNCHANGED <<pedge, curr, pc, timer, literal, call, L>>

\* What the pollEdge does not touch.
PollFrame ==
    UNCHANGED <<clock, rawSince, confVars, edge, filterVars, op, realVars,
                rasterVars, hostVars>>

\* The pollEdge is the one PollEdge returns or, as no method of pollEdge
\* arms an edge, a literal &pollEdge{..., edge: e} of the package.
PollInit ==
    /\ L \in Level
    /\ DebOff
    /\ RealOff
    /\ RasterOff
    /\ BcallOff
    /\ HostOff
    /\ pedge \in Edge
    /\ literal = (pedge # NoEdge)
    /\ die = 0
    /\ curr = Low
    /\ pc = "idle"
    /\ timer = "none"
    /\ stale = 0
    /\ call = NoCall

PollNext ==
    \/ \E pull \in Pull, inErr \in Errors : pollEdge_In(pull, inErr) /\ PollFrame
    \/ \E timeout \in Timeouts : WaitForEdge_Begin(timeout) /\ PollFrame
    \/ WaitForEdge_Sample /\ PollFrame
    \/ WaitForEdge_Die /\ PollFrame
    \/ TimerFire /\ PollFrame
    \/ TimerCallback /\ PollFrame
    \/ StaleCallback /\ PollFrame
    \/ RawChange /\ Others

SpecPoll == PollInit /\ [][PollNext]_vars

\* The runtime fires a timer whose time has come and runs its callback, and
\* a select that can receive from die does so in the end.
FairSpecPoll ==
    /\ SpecPoll
    /\ WF_vars(TimerFire /\ PollFrame)
    /\ WF_vars(TimerCallback /\ PollFrame)
    /\ WF_vars(StaleCallback /\ PollFrame)
    /\ WF_vars(WaitForEdge_Die /\ PollFrame)

\* ================================================================ raster32
\* A uint32 word is the set of the positions of its 1 bits, so `w |= mask`
\* is a union and `mask == 0` is mask = {}.  A buffer is a sequence of
\* words; index i of the code is element i + 1.  A stream is a record: its
\* variant in `type`, the bytes and the order of a BitStream in `bits` and
\* `lsbf`, the resolution and the duration of an EdgeStream in `res` and
\* `dur`.  A call returns the error (or "nil"), or ends in a panic, and
\* leaves the two buffers as `clear` and `set`.

\* Most bytes in a BitStream.
MaxBytes == 2

\* Most words in a buffer.
MaxWords == 17

\* Largest replication factor.
MaxSkip == 2

\* Largest resolution and EdgeStream duration.
MaxRes == 2

\* The byte values of the streams: 0x00, 0xB2, 0xFF.
ByteVals == {0, 178, 255}

\* The lane masks, and what the words hold before the call.
MaskVals == {{}, {1}, {0, 2}}
FillVals == {{}, {1, 3}}

Min(a, b) == IF a < b THEN a ELSE b

RECURSIVE Pow2(_)
Pow2(n) == IF n = 0 THEN 1 ELSE 2 * Pow2(n - 1)

\* A getBit that always counts from the least significant bit.
getBit_LSBFirst(b, index, msb) == (b \div Pow2(index)) % 2

getBit(b, index, msb) ==
    LET shift == IF msb THEN 7 - index ELSE index
    IN  (b \div Pow2(shift)) % 2

\* A raster32Bits that writes one word for each bit.
raster32Bits_OneWordPerBit(s, skip, clear, set, mask) ==
    LET m == Min(Len(clear) \div 8, Len(s.bits))
        bitAt(p) == getBit(s.bits[(p \div 8) + 1], p % 8, ~s.lsbf)
    IN  [err |-> "nil",
         clear |-> [w \in 1..Len(clear) |->
                      IF w - 1 < m * 8 /\ bitAt(w - 1) = 0
                      THEN clear[w] \cup mask ELSE clear[w]],
         set |-> [w \in 1..Len(set) |->
                      IF w - 1 < m * 8 /\ bitAt(w - 1) # 0
                      THEN set[w] \cup mask ELSE set[w]]]

\* A raster32Bits that stores mask in the words instead of or-ing it in.
raster32Bits_Overwrites(s, skip, clear, set, mask) ==
    LET m == Min(Len(clear) \div 8, Len(s.bits))
        total == IF skip > 0 THEN Min(m * 8 * skip, Len(clear)) ELSE 0
        bitAt(p) == getBit(s.bits[((p \div skip) \div 8) + 1],
                           (p \div skip) % 8, ~s.lsbf)
    IN  [err |-> "nil",
         clear |-> [w \in 1..Len(clear) |->
                      IF w - 1 < total /\ bitAt(w - 1) = 0
                      THEN mask ELSE clear[w]],
         set |-> [w \in 1..Len(set) |->
                      IF w - 1 < total /\ bitAt(w - 1) # 0
                      THEN mask ELSE set[w]]]

\* The three loops of raster32Bits make `total` writes, at index 0, 1, ...
\* in turn; the write at index p is for bit (p \div skip) % 8 of byte
\* p \div skip \div 8 and goes to set when that bit is 1, to clear
\* otherwise.  The first write at an index the buffer does not have is a
\* run-time panic; the writes made before it stay.
raster32Bits(s, skip, clear, set, mask) ==
    IF s.type # "BitStream"
    THEN [err |-> "unsupported type", clear |-> clear, set |-> set]
    ELSE
    LET msb == ~s.lsbf
        m == Min(Len(clear) \div 8, Len(s.bits))
        total == IF skip > 0 THEN m * 8 * skip ELSE 0
        bitAt(p) == getBit(s.bits[((p \div skip) \div 8) + 1],
                           (p \div skip) % 8, msb)
        bad == {p \in 0..(total - 1) :
                  p >= Len(IF bitAt(p) # 0 THEN set ELSE clear)}
        stop == IF bad = {} THEN total
                ELSE CHOOSE p \in bad : \A q \in bad : p <= q
    IN  [err |-> IF bad = {} THEN "nil" ELSE "panic: index out of range",
         clear |-> [w \in 1..Len(clear) |->
                      IF w - 1 < stop /\ bitAt(w - 1) = 0
                      THEN clear[w] \cup mask ELSE clear[w]],
         set |-> [w \in 1..Len(set) |->
                      IF w - 1 < stop /\ bitAt(w - 1) # 0
                      THEN set[w] \cup mask ELSE set[w]]]

\* raster32Edges: the level l stays High, the edges are not read.
raster32Edges(e, resolution, clear, set, mask) ==
    IF resolution < e.res
    THEN [err |-> "resolution is too coarse", clear |-> clear, set |-> set]
    ELSE IF e.dur > resolution * Len(clear)
    THEN [err |-> "buffer is too short", clear |-> clear, set |-> set]
    ELSE [err |-> IF Len(set) < Len(clear) THEN "panic: index out of range"
                  ELSE "nil",
          clear |-> clear,
          set |-> [w \in 1..Len(set) |->
                     IF w <= Len(clear) THEN set[w] \cup mask ELSE set[w]]]

\* A raster32 without the test of mask.
raster32_NoMaskTest(s, skip, clear, set, mask, resolution) ==
    IF Len(clear) = 0
    THEN [err |-> "clear buffer is empty", clear |-> clear, set |-> set]
    ELSE IF Len(set) = 0
    THEN [err |-> "set buffer is empty", clear |-> clear, set |-> set]
    ELSE IF Len(clear) # Len(set)
    THEN [err |-> "clear and set buffers have different length",
          clear |-> clear, set |-> set]
    ELSE raster32Bits(s, skip, clear, set, mask)

\* A raster32 without the tests of the buffers.
raster32_NoBufferTest(s, skip, clear, set, mask, resolution) ==
    IF mask = {}
    THEN [err |-> "mask is 0", clear |-> clear, set |-> set]
    ELSE IF s.type = "BitStream"
    THEN raster32Bits(s, skip, clear, set, mask)
    ELSE IF s.type = "EdgeStream"
    THEN raster32Edges(s, resolution, clear, set, mask)
    ELSE [err |-> "unknown stream type", clear |-> clear, set |-> set]

\* raster32.  `resolution` is the identifier its EdgeStream and Program
\* cases name; it is no parameter of raster32.  The Program case calls
\* raster32 again with the same stream and buffers, so that the tests pass
\* again and the same case is taken, without end: the goroutine's stack
\* overflows.
raster32(s, skip, clear, set, mask, resolution) ==
    IF mask = {}
    THEN [err |-> "mask is 0", clear |-> clear, set |-> set]
    ELSE IF Len(clear) = 0
    THEN [err |-> "clear buffer is empty", clear |-> clear, set |-> set]
    ELSE IF Len(set) = 0
    THEN [err |-> "set buffer is empty", clear |-> clear, set |-> set]
    ELSE IF Len(clear) # Len(set)
    THEN [err |-> "clear and set buffers have different length",
          clear |-> clear, set |-> set]
    ELSE IF s.type = "BitStream"
    THEN raster32Bits(s, skip, clear, set, mask)
    ELSE IF s.type = "EdgeStream"
    THEN raster32Edges(s, resolution, clear, set, mask)
    ELSE IF s.type = "Program"
    THEN [err |-> "fatal: stack overflow", clear |-> clear, set |-> set]
    ELSE [err |-> "unknown stream type", clear |-> clear, set |-> set]

\* The byte sequences of at most n bytes.
BytesUpTo(n) == UNION {[1..k -> ByteVals] : k \in 0..n}

\* The times in ts, in growing order.
RECURSIVE Sorted(_)
Sorted(ts) ==
    IF ts = {} THEN <<>>
    ELSE LET t == CHOOSE x \in ts : \A y \in ts : x <= y
         IN  <<t>> \o Sorted(ts \ {t})

\* The edge lists of the EdgeStreams: times that grow strictly.
EdgeLists == {Sorted(ts) : ts \in SUBSET (1..MaxRes)}

\* EdgeStream.Duration(), as the data model has it: the time of the last
\* edge.
Duration(edges) == IF edges = <<>> THEN 0 ELSE edges[Len(edges)]

\* The streams: every BitStream of at most MaxBytes bytes, every EdgeStream
\* by its resolution and edges, a Program, and a value of another type.
Streams ==
    {[type |-> "BitStream", bits |-> b, lsbf |-> o, res |-> 1, dur |-> 0,
      edges |-> <<>>] : b \in BytesUpTo(MaxBytes), o \in BOOLEAN}
    \cup
    {[type |-> "EdgeStream", bits |-> <<>>, lsbf |-> FALSE, res |-> r,
      dur |-> Duration(e), edges |-> e] : r \in 1..MaxRes, e \in EdgeLists}
    \cup
    {[type |-> t, bits |-> <<>>, lsbf |-> FALSE, res |-> 1, dur |-> 0,
      edges |-> <<>>] : t \in {"Program", "unknown"}}

\* A buffer of n words that all hold f.
Buffer(n, f) == [w \in 1..n |-> f]

\* BitStreamLSB.Duration(), as the data model has it: the time of one bit
\* for every bit.
BitsDuration(bits, res) == res * (Len(bits) * 8)

\* The BitStreamLSB streams: bytes least significant bit first, and the
\* time of one bit.
LSBStreams ==
    {[type |-> "BitStreamLSB", bits |-> b, lsbf |-> TRUE, res |-> r,
      dur |-> BitsDuration(b, r), edges |-> <<>>] :
        b \in BytesUpTo(MaxBytes), r \in 1..MaxRes}

\* rasterEdges.
rasterEdges(e, out) == [err |-> "implement me", out |-> out]

\* A rasterBits that copies whatever the resolutions are.
rasterBits_Resamples(b, out) ==
    IF b.dur > out.res * (Len(out.bits) * 8)
    THEN [err |-> "buffer is too short", out |-> out]
    ELSE [err |-> "nil",
          out |-> [out EXCEPT !.bits =
                     [i \in 1..Len(out.bits) |->
                        IF i <= Len(b.bits) THEN b.bits[i] ELSE out.bits[i]]]]

\* rasterBits.  b.dur is b.Duration(); copy() copies as many bytes as the
\* shorter of the two slices has.
rasterBits(b, out) ==
    IF out.res # b.res
    THEN [err |-> "TODO: implement resolution matching", out |-> out]
    ELSE IF b.dur > out.res * (Len(out.bits) * 8)
    THEN [err |-> "buffer is too short", out |-> out]
    ELSE [err |-> "nil",
          out |-> [out EXCEPT !.bits =
                     [i \in 1..Len(out.bits) |->
                        IF i <= Len(b.bits) THEN b.bits[i] ELSE out.bits[i]]]]

\* A raster that takes every type it does not know for an empty stream.
raster_AcceptsUnknown(s, out) ==
    IF s.type = "BitStreamLSB" THEN rasterBits(s, out)
    ELSE IF s.type = "EdgeStream" THEN rasterEdges(s, out)
    ELSE IF s.type = "Program"
    THEN [err |-> "fatal: stack overflow", out |-> out]
    ELSE [err |-> "nil", out |-> out]

\* raster.  Its Program case calls raster again with the same stream and
\* the same out, so that the same case is taken again, without end: the
\* goroutine's stack overflows.
raster(s, out) ==
    IF s.type = "BitStreamLSB" THEN rasterBits(s, out)
    ELSE IF s.type = "EdgeStream" THEN rasterEdges(s, out)
    ELSE IF s.type = "Program"
    THEN [err |-> "fatal: stack overflow", out |-> out]
    ELSE [err |-> "unknown stream type", out |-> out]

\* binary.BigEndian.Uint32 of the four bytes of bits from index i on, and
\* the word that the bytes left over make when there are fewer than four.
\* A word of dst is the four bytes of its value, the most significant
\* first.
BigEndian(bits, i) ==
    LET byte(j) == IF i + j < Len(bits) THEN bits[i + j + 1] ELSE 0
    IN  <<byte(0), byte(1), byte(2), byte(3)>>

\* A copyStreamToDMABuf that copies a BitStream whatever its bit order.
copyStreamToDMABuf_IgnoresLSBF(w, dst) ==
    IF w.type = "BitStream"
    THEN LET writes == (Len(w.bits) + 3) \div 4
         IN  [err |-> IF writes > Len(dst) THEN "panic: index out of range"
                      ELSE "nil",
              dst |-> [i \in 1..Len(dst) |->
                         IF i <= writes THEN BigEndian(w.bits, (i - 1) * 4)
                         ELSE dst[i]]]
    ELSE IF w.type = "EdgeStream"
    THEN [err |-> "TODO(simokawa): handle EdgeStream", dst |-> dst]
    ELSE [err |-> "unsupported Stream type", dst |-> dst]

\* copyStreamToDMABuf.  The loop writes one word for every four bytes and
\* one more for the bytes left over; a write at an index dst does not have
\* is a run-time panic, the writes before it stay.
copyStreamToDMABuf(w, dst) ==
    IF w.type = "BitStream"
    THEN IF w.lsbf
         THEN [err |-> "TODO(simokawa): handle BitStream.LSBF", dst |-> dst]
         ELSE LET writes == (Len(w.bits) + 3) \div 4
              IN  [err |-> IF writes > Len(dst)
                           THEN "panic: index out of range" ELSE "nil",
                   dst |-> [i \in 1..Len(dst) |->
                              IF i <= writes
                              THEN BigEndian(w.bits, (i - 1) * 4)
                              ELSE dst[i]]]
    ELSE IF w.type = "EdgeStream"
    THEN [err |-> "TODO(simokawa): handle EdgeStream", dst |-> dst]
    ELSE [err |-> "unsupported Stream type", dst |-> dst]

\* The arguments of one call of raster32: any stream, replication factor,
\* mask and resolution, a clear buffer of any length and a set buffer that
\* is empty, as long, or one word longer or shorter.
Raster32Args ==
    \E s \in Streams, skip \in 0..MaxSkip, mask \in MaskVals,
       f \in FillVals, resolution \in 1..MaxRes,
       cl \in 0..MaxWords, sl \in 0..MaxWords :
       /\ sl \in {0, cl - 1, cl, cl + 1}
       /\ (s.type # "EdgeStream" => resolution = 1)
       /\ ras = [stage |-> "in", s |-> s, skip |-> skip, mask |-> mask,
                 resolution |-> resolution,
                 clear |-> Buffer(cl, f), set |-> Buffer(sl, f),
                 oldClear |-> Buffer(cl, f), oldSet |-> Buffer(sl, f),
                 err |-> "nil"]

\* The arguments of one call of raster: any stream, and an out of any
\* resolution whose bytes all hold one value.
RasterArgs ==
    \E s \in Streams \cup LSBStreams, n \in 0..MaxBytes, f \in ByteVals,
       r \in 1..MaxRes :
       bcall = [stage |-> "in", fn |-> "raster", s |-> s,
                out |-> [bits |-> Buffer(n, f), res |-> r],
                old |-> [bits |-> Buffer(n, f), res |-> r],
                err |-> "nil"]

\* Most bytes in a BitStream handed to copyStreamToDMABuf.
MaxCopyBytes == 5

\* The BitStreams of more than MaxBytes bytes, most significant bit first.
LongStreams ==
    {[type |-> "BitStream", bits |-> b, lsbf |-> FALSE, res |-> 1, dur |-> 0,
      edges |-> <<>>] : b \in BytesUpTo(MaxCopyBytes) \ BytesUpTo(MaxBytes)}

\* The arguments of one call of copyStreamToDMABuf: any stream, and a dst
\* whose words all hold one value.
CopyArgs ==
    \E s \in Streams \cup LSBStreams \cup LongStreams, n \in 0..MaxBytes,
       f \in ByteVals :
       bcall = [stage |-> "in", fn |-> "copyStreamToDMABuf", s |-> s,
                out |-> Buffer(n, <<f, f, f, f>>),
                old |-> Buffer(n, <<f, f, f, f>>), err |-> "nil"]

\* One call is made, of one of the three functions.
RasterInit ==
    /\ \/ Raster32Args /\ BcallOff
       \/ RasterOff /\ RasterArgs
       \/ RasterOff /\ CopyArgs
    /\ L = Low
    /\ DebOff
    /\ RealOff
    /\ PollOff
    /\ HostOff

\* raster32(s, skip, clear, set, mask) returns.
Raster32 ==
    /\ ras.stage = "in"
    /\ LET r == raster32(ras.s, ras.skip, ras.clear, ras.set, ras.mask,
                         ras.resolution)
       IN  ras' = [ras EXCEPT !.stage = "out", !.clear = r.clear,
                              !.set = r.set, !.err = r.err]
    /\ UNCHANGED <<debVars, realVars, pollVars, bcall, hostVars>>

\* raster(s, out) returns.
Raster ==
    /\ bcall.stage = "in"
    /\ bcall.fn = "raster"
    /\ LET r == raster(bcall.s, bcall.out)
       IN  bcall' = [bcall EXCEPT !.stage = "out", !.out = r.out,
                                  !.err = r.err]
    /\ UNCHANGED <<debVars, realVars, pollVars, ras, hostVars>>

\* copyStreamToDMABuf(w, dst) returns.
CopyStreamToDMABuf ==
    /\ bcall.stage = "in"
    /\ bcall.fn = "copyStreamToDMABuf"
    /\ LET r == copyStreamToDMABuf(bcall.s, bcall.out)
       IN  bcall' = [bcall EXCEPT !.stage = "out", !.out = r.dst,
                                  !.err = r.err]
    /\ UNCHANGED <<debVars, realVars, pollVars, ras, hostVars>>

RasterNext ==
    \/ Raster32
    \/ Raster
    \/ CopyStreamToDMABuf

SpecRaster == RasterInit /\ [][RasterNext]_vars

\* ===================================================== dma.Register, Get
\* Goroutines call Register and Get at any time.  A call waits for mu at
\* "lock" and, with mu held, runs the body of the function, unlocks and
\* returns in one step.  `after` is what firstOk was when the call began.

\* The controllers a Register may be given: nil and two Controllers.
Controllers == 0..2

\* A goroutine calls Register(c) or Get().
DmaCall(p, fn, c) ==
    /\ dcall[p].pc = "idle"
    /\ dcall' = [dcall EXCEPT ![p] = [pc |-> "lock", fn |-> fn, arg |-> c,
                                      after |-> firstOk, ret |-> 0,
                                      err |-> "nil"]]
    /\ UNCHANGED <<controller, dmu, firstOk>>

\* mu.Lock()
DmaLock(p) ==
    /\ dcall[p].pc = "lock"
    /\ dmu = 0
    /\ dmu' = p
    /\ dcall' = [dcall EXCEPT ![p].pc = "test"]
    /\ UNCHANGED <<controller, firstOk>>

\* Register: the test of controller, with mu held.
Register_Test(p) ==
    /\ dcall[p].pc = "test"
    /\ dcall[p].fn = "Register"
    /\ dcall' = [dcall EXCEPT ![p].pc =
                    IF controller # 0 THEN "fail" ELSE "store"]
    /\ UNCHANGED <<controller, dmu, firstOk>>

\* Register: the error return, and the deferred mu.Unlock().
Register_Fail(p) ==
    /\ dcall[p].pc = "fail"
    /\ dmu' = 0
    /\ dcall' = [dcall EXCEPT ![p].pc = "idle",
                    ![p].err = "support for multiple DMA controllers is not yet implemented"]
    /\ UNCHANGED <<controller, firstOk>>

\* Register: controller = c, return nil, and the deferred mu.Unlock().
Register_Store(p) ==
    /\ dcall[p].pc = "store"
    /\ controller' = dcall[p].arg
    /\ dmu' = 0
    /\ dcall' = [dcall EXCEPT ![p].pc = "idle", ![p].err = "nil"]
    /\ firstOk' = IF firstOk.done THEN firstOk
                  ELSE [done |-> TRUE, c |-> dcall[p].arg]

\* Get, with mu held, and the deferred mu.Unlock().
Get(p) ==
    /\ dcall[p].pc = "test"
    /\ dcall[p].fn = "Get"
    /\ dmu' = 0
    /\ dcall' = [dcall EXCEPT ![p].pc = "idle", ![p].ret = controller,
                    ![p].err = IF controller = 0
                               THEN "no DMA controller found" ELSE "nil"]
    /\ UNCHANGED <<controller, firstOk>>

\* What package dma does not touch.
DmaFrame ==
    UNCHANGED <<debVars, realVars, pollVars, rasterVars, fsVars, spiVars,
                regVars>>

DmaInit ==
    /\ DmaIdle
    /\ FsIdle
    /\ SpiOff
    /\ RegOff
    /\ L = Low
    /\ DebOff
    /\ RealOff
    /\ PollOff
    /\ RasterOff
    /\ BcallOff

DmaNext ==
    \/ \E p \in Procs, c \in Controllers : DmaCall(p, "Register", c) /\ DmaFrame
    \/ \E p \in Procs : DmaCall(p, "Get", 0) /\ DmaFrame
    \/ \E p \in Procs : DmaLock(p) /\ DmaFrame
    \/ \E p \in Procs : Register_Test(p) /\ DmaFrame
    \/ \E p \in Procs : Register_Fail(p) /\ DmaFrame
    \/ \E p \in Procs : Register_Store(p) /\ DmaFrame
    \/ \E p \in Procs : Get(p) /\ DmaFrame

SpecDma == DmaInit /\ [][DmaNext]_vars

\* ======================================================= fs.Open, Inhibit
\* Goroutines call Open and Inhibit at any time.  A call waits for mu at
\* "lock" and runs the part of the function under mu in one step.  `after`
\* and `afterOpen` are what inhibitRet and opened were when the call began;
\* `out` is how the call ended.  A goroutine whose Inhibit has panicked may
\* recover and call again.

\* A goroutine calls Open(path, flag) or Inhibit().
FsCall(p, fn) ==
    /\ fcall[p].pc = "idle"
    /\ fcall' = [fcall EXCEPT ![p] = [pc |-> "lock", fn |-> fn,
                                      after |-> inhibitRet,
                                      afterOpen |-> opened, out |-> "none"]]
    /\ UNCHANGED <<inhibited, used, fmu, inhibitRet, opened>>

\* mu.Lock()
FsLock(p) ==
    /\ fcall[p].pc = "lock"
    /\ fmu = 0
    /\ fmu' = p
    /\ fcall' = [fcall EXCEPT ![p].pc = "test"]
    /\ UNCHANGED <<inhibited, used, inhibitRet, opened>>

\* An Open that does not look at inhibited.
Open_Test_IgnoresInhibited(p) ==
    /\ fcall[p].pc = "test"
    /\ fcall[p].fn = "Open"
    /\ fmu' = 0
    /\ used' = TRUE
    /\ fcall' = [fcall EXCEPT ![p].pc = "openfile"]
    /\ UNCHANGED <<inhibited, inhibitRet, opened>>

\* Open, from the test of inhibited to mu.Unlock().
Open_Test(p) ==
    /\ fcall[p].pc = "test"
    /\ fcall[p].fn = "Open"
    /\ fmu' = 0
    /\ IF inhibited
       THEN /\ fcall' = [fcall EXCEPT ![p].pc = "idle",
                                      ![p].out = "file I/O is inhibited"]
            /\ UNCHANGED used
       ELSE /\ used' = TRUE
            /\ fcall' = [fcall EXCEPT ![p].pc = "openfile"]
    /\ UNCHANGED <<inhibited, inhibitRet, opened>>

\* Open: os.OpenFile gives a file or an error, which Open returns.
Open_File(p, out) ==
    /\ fcall[p].pc = "openfile"
    /\ fcall' = [fcall EXCEPT ![p].pc = "idle", ![p].out = out]
    /\ opened' = TRUE
    /\ UNCHANGED <<inhibited, used, fmu, inhibitRet>>

\* Inhibit, with mu held: it returns after mu.Unlock(), or panics before.
Inhibit(p) ==
    /\ fcall[p].pc = "test"
    /\ fcall[p].fn = "Inhibit"
    /\ inhibited' = TRUE
    /\ IF used
       THEN /\ fcall' = [fcall EXCEPT ![p].pc = "idle", ![p].out = "panic"]
            /\ UNCHANGED <<fmu, inhibitRet>>
       ELSE /\ fcall' = [fcall EXCEPT ![p].pc = "idle",
                                      ![p].out = "returned"]
            /\ fmu' = 0
            /\ inhibitRet' = TRUE
    /\ UNCHANGED <<used, opened>>

\* What package fs does not touch.
FsFrame ==
    UNCHANGED <<debVars, realVars, pollVars, rasterVars, dmaVars, spiVars,
                regVars>>

FsInit ==
    /\ FsIdle
    /\ DmaIdle
    /\ SpiOff
    /\ RegOff
    /\ L = Low
    /\ DebOff
    /\ RealOff
    /\ PollOff
    /\ RasterOff
    /\ BcallOff

FsNext ==
    \/ \E p \in Procs, fn \in {"Open", "Inhibit"} : FsCall(p, fn) /\ FsFrame
    \/ \E p \in Procs : FsLock(p) /\ FsFrame
    \/ \E p \in Procs : Open_Test(p) /\ FsFrame
    \/ \E p \in Procs, out \in {"file", "os error"} :
          Open_File(p, out) /\ FsFrame
    \/ \E p \in Procs : Inhibit(p) /\ FsFrame

SpecFs == FsInit /\ [][FsNext]_vars

\* ============================================================ spics.ConnGPIO
\* A ConnGPIO is used by one goroutine.  DevParams is one step; Tx and
\* TxPackets are three: the Out that drives CS to the active level, the
\* transfer of the wrapped connection, and the deferred Out.  An Out that
\* returns an error leaves the pin at the level it had.

\* Most transfers followed on one ConnGPIO.
MaxSends == 2

\* c.cs.Out(l), which returns outErr.
Out(l, outErr) == IF outErr = "nil" THEN l ELSE cs

\* DevParams(maxHz, mode, bits): mode2 says that the bit spi.Mode2 is set in
\* mode; the wrapped DevParams returns connErr and c.cs.Out returns outErr.
DevParams(mode2, connErr, outErr) ==
    /\ scall.pc = "idle"
    /\ IF connErr # "nil"
       THEN /\ scall' = [NoSpiCall EXCEPT !.fn = "DevParams", !.err = connErr,
                                         !.sent = scall.sent]
            /\ UNCHANGED <<cs, active>>
       ELSE /\ active' = ~mode2
            /\ cs' = Out(~active', outErr)
            /\ scall' = [NoSpiCall EXCEPT !.fn = "DevParams", !.err = outErr,
                                         !.sent = scall.sent]

\* Tx or TxPackets, up to the transfer: c.cs.Out(c.active) returns outErr.
Tx_Out(fn, outErr) ==
    /\ scall.pc = "idle"
    /\ scall.sent < MaxSends
    /\ cs' = Out(active, outErr)
    /\ scall' = IF outErr # "nil"
                THEN [NoSpiCall EXCEPT !.fn = fn, !.err = outErr,
                                       !.csErr = outErr, !.sent = scall.sent]
                ELSE [NoSpiCall EXCEPT !.fn = fn, !.pc = "transfer",
                                       !.sent = scall.sent]
    /\ UNCHANGED active

\* c.Conn.Tx(w, r) or c.Conn.TxPackets(p), which returns txErr.
Tx_Conn(txErr) ==
    /\ scall.pc = "transfer"
    /\ scall' = [scall EXCEPT !.pc = "deferred", !.err = txErr,
                              !.txs = @ + 1, !.sent = @ + 1]
    /\ UNCHANGED <<cs, active>>

\* The deferred c.cs.Out(!c.active), which returns outErr; its result is
\* dropped and the call returns what the transfer returned.
Tx_Deferred(outErr) ==
    /\ scall.pc = "deferred"
    /\ cs' = Out(~active, outErr)
    /\ scall' = [scall EXCEPT !.pc = "idle"]
    /\ UNCHANGED active

\* What package spics does not touch.
SpiFrame ==
    UNCHANGED <<debVars, realVars, pollVars, rasterVars, dmaVars, fsVars,
                regVars>>

\* The chip-select pin has any level when New is called.
SpiInit ==
    /\ cs \in Level
    /\ active = Low
    /\ scall = NoSpiCall
    /\ RegOff
    /\ DmaIdle
    /\ FsIdle
    /\ L = Low
    /\ DebOff
    /\ RealOff
    /\ PollOff
    /\ RasterOff
    /\ BcallOff

SpiNext ==
    \/ \E mode2 \in BOOLEAN, connErr \in Errors, outErr \in Errors :
          DevParams(mode2, connErr, outErr) /\ SpiFrame
    \/ \E fn \in {"Tx", "TxPackets"}, outErr \in Errors :
          Tx_Out(fn, outErr) /\ SpiFrame
    \/ \E txErr \in Errors : Tx_Conn(txErr) /\ SpiFrame
    \/ \E outErr \in Errors : Tx_Deferred(outErr) /\ SpiFrame

SpecSpi == SpiInit /\ [][SpiNext]_vars

\* ==================================================================== pinreg
\* A pin is its name; the empty name stands for a nil pin and for a pin
\* with no name.  A header is the sequence of its pins row after row, the
\* order in which Register numbers them.  The calls are made one at a
\* time.  What gpioreg.RegisterAlias and gpioreg.Unregister return is an
\* input of the call.

\* Most pins on a header.
MaxPins == 2

HeaderNames == {"P1", "P2"}

\* The pins: a GPIO, an alias of it, and the invalid pin.  Both are
\* gpio.PinIO, so Register asks gpioreg for an alias for each of them.
PinNames == {"GPIO1", "A1", ""}

\* The pin is a gpio.PinIO.
IsPinIO(p) == p \in {"GPIO1", "A1"}

\* realPin(p).Name()
realPin(p) == IF p = "A1" THEN "GPIO1" ELSE p

\* The allPins a caller can hand to Register.
Headers == UNION {[1..n -> PinNames] : n \in 0..MaxPins}

\* Position(p)
Position(p) ==
    IF realPin(p) \in DOMAIN ByPin THEN ByPin[realPin(p)]
    ELSE [name |-> "", number |-> 0]

\* The map m without the key k.
Delete(m, k) == [x \in DOMAIN m \ {k} |-> m[x]]

\* internal.ByPin after the loop of Register that numbers the pins.
Numbered(name, allPins) ==
    LET reals == {realPin(allPins[i]) : i \in 1..Len(allPins)}
        lastAt(r) == CHOOSE i \in 1..Len(allPins) :
                        /\ realPin(allPins[i]) = r
                        /\ \A j \in (i + 1)..Len(allPins) :
                              realPin(allPins[j]) # r
    IN  [r \in DOMAIN ByPin \cup reals |->
            IF r \in reals THEN [name |-> name, number |-> lastAt(r)]
            ELSE ByPin[r]]

\* The pins of allPins for which Register calls gpioreg.RegisterAlias.
AliasAt(allPins) == {i \in 1..Len(allPins) : IsPinIO(allPins[i])}

\* Register(name, allPins); failAt is the pin at which RegisterAlias
\* returns an error, 0 when it never does.
Register(name, allPins, failAt) ==
    /\ failAt \in AliasAt(allPins) \cup {0}
    /\ IF name \in DOMAIN AllHeaders
       THEN /\ rcall' = [fn |-> "Register", name |-> name,
                         err |-> "was already registered"]
            /\ UNCHANGED <<AllHeaders, ByPin>>
       ELSE IF \E i \in 1..Len(allPins) : allPins[i] = ""
       THEN /\ rcall' = [fn |-> "Register", name |-> name,
                         err |-> "invalid pin on header"]
            /\ UNCHANGED <<AllHeaders, ByPin>>
       ELSE /\ ByPin' = Numbered(name, allPins)
            /\ IF failAt # 0
               THEN /\ AllHeaders' = AllHeaders
                    /\ rcall' = [fn |-> "Register", name |-> name,
                                 err |-> "gpioreg error"]
               ELSE /\ AllHeaders' =
                          [h \in DOMAIN AllHeaders \cup {name} |->
                              IF h = name THEN allPins ELSE AllHeaders[h]]
                    /\ rcall' = [fn |-> "Register", name |-> name,
                                 err |-> "nil"]

\* unregister(name), called by Unregister; failAt is the pin at which
\* gpioreg.Unregister returns an error, 0 when it never does.
unregister(name, failAt) ==
    IF name \in DOMAIN AllHeaders
    THEN /\ failAt \in AliasAt(AllHeaders[name]) \cup {0}
         /\ AllHeaders' = Delete(AllHeaders, name)
         /\ rcall' = [fn |-> "Unregister", name |-> name,
                      err |-> IF failAt # 0 THEN "gpioreg error" ELSE "nil"]
         /\ UNCHANGED ByPin
    ELSE /\ failAt = 0
         /\ rcall' = [fn |-> "Unregister", name |-> name,
                      err |-> "can't unregister unknown header name"]
         /\ UNCHANGED <<AllHeaders, ByPin>>

\* What package pinreg does not touch.
RegFrame ==
    UNCHANGED <<debVars, realVars, pollVars, rasterVars, dmaVars, fsVars,
                spiVars>>

RegInit ==
    /\ RegOff
    /\ SpiOff
    /\ DmaIdle
    /\ FsIdle
    /\ L = Low
    /\ DebOff
    /\ RealOff
    /\ PollOff
    /\ RasterOff
    /\ BcallOff

RegNext ==
    \/ \E name \in HeaderNames, allPins \in Headers, failAt \in 0..MaxPins :
          Register(name, allPins, failAt) /\ RegFrame
    \/ \E name \in HeaderNames, failAt \in 0..MaxPins :
          unregister(name, failAt) /\ RegFrame

SpecReg == RegInit /\ [][RegNext]_vars

\* ============================================================= properties

\* The time for which the raw level has had its present value.
RawFor == clock - rawSince

\* C1: with denoise > 0, a Read made while the raw level has differed
\* from the steady level for less than denoise returns the steady level
\* (a glitch shorter than denoise never changes what Read returns).  The
\* raw level is free to return right after such a Read, which makes the
\* glitch one that ended before denoise had elapsed.
C1_ShortGlitchIgnored ==
    [][(wrapped /\ denoise > 0 /\ op'.name = "Read" /\ RawFor < denoise)
          => op'.ret = steady]_vars

\* C2: with debounce > 0, once Read has changed the steady level at time
\* T = lastSteady (the state lastSteady > lastGlitch, which only such a
\* Read leaves), every Read at a time before T + debounce returns that
\* steady level, whatever the raw level.
C2_DebounceLocksOut ==
    [][(wrapped /\ debounce > 0 /\ lastSteady > lastGlitch
          /\ op'.name = "Read" /\ clock < lastSteady + debounce)
          => op'.ret = steady]_vars

\* C3: in the debounce phase (lastSteady later than lastGlitch) a Read that
\* sees a raw level other than the steady level at or after
\* lastSteady + debounce accepts that level as steady and returns it.
C3_DebounceExpires ==
    [][(wrapped /\ lastSteady > lastGlitch /\ op'.name = "Read"
          /\ L # steady /\ clock >= lastSteady + debounce)
          => (op'.ret = L /\ steady' = L)]_vars

\* The raw level differs from the steady level and the clock has advanced
\* by at least denoise since the raw level changed and since the filter
\* was last restarted.
SustainedChange ==
    /\ wrapped
    /\ denoise > 0
    /\ L # steady
    /\ clock >= rawSince + denoise
    /\ clock >= lastSteady + denoise

\* C4: with denoise > 0, when the raw level changes to a level other than
\* the steady level and stays there while Read keeps being called and the
\* clock advances by at least denoise, some Read returns the new level
\* (the change does not stay pending for ever), and once the steady level
\* is the raw level every Read returns it.
C4_SustainedChangePasses ==
    /\ []<>(~SustainedChange)
    /\ [][(wrapped /\ denoise > 0 /\ op'.name = "Read" /\ L = steady)
             => (op'.ret = L /\ steady' = steady)]_vars

\* C5: Debounce(p, 0, 0, edge) returns p itself and a nil error, without
\* calling In or Read on p and without calling now().
C5_ZeroIsIdentity ==
    (op.name = "Debounce" /\ op.den = 0 /\ op.deb = 0)
        => (op.pin = "raw" /\ op.err = "nil"
            /\ op.ins = 0 /\ op.reads = 0 /\ op.nows = 0)

\* C5 witness: Debounce(p, 0, 0, RisingEdge) has just returned p.
C5_Witness ==
    op.name = "Debounce" /\ op.den = 0 /\ op.deb = 0 /\ op.e = RisingEdge
        /\ op.pin = "raw"

\* C6: a WaitForEdge that returns false leaves steady, lastSteady,
\* lastGlitch and edge as they were, does not read the raw pin and does
\* not call now().
C6_TimeoutChangesNothing ==
    [][(op'.name = "WaitForEdge" /\ ~op'.ret)
          => (UNCHANGED <<steady, lastSteady, lastGlitch, edge>>
              /\ op'.reads = 0 /\ op'.nows = 0)]_vars

\* C6 witness: WaitForEdge has just timed out while a glitch was pending
\* (the raw level differs from the steady level, lastGlitch is set).
C6_Witness ==
    /\ op.name = "WaitForEdge" /\ ~op.ret
    /\ L # steady /\ lastGlitch > lastSteady /\ clock > lastGlitch

\* C7: when WaitForEdge returns true, steady is the raw level read after
\* the edge, lastSteady and lastGlitch are both the value now() returned in
\* the call, and now() was called exactly once.
C7_EdgeResynchronises ==
    (op.name = "WaitForEdge" /\ op.ret)
        => (steady = L /\ lastSteady = clock /\ lastGlitch = clock
            /\ op.reads = 1 /\ op.nows = 1)

\* C7 witness: WaitForEdge has just returned true long after the wrap,
\* with a raw level that has just changed.
C7_Witness ==
    /\ op.name = "WaitForEdge" /\ op.ret
    /\ clock >= 2 /\ rawSince = clock /\ steady = High

\* C8: WaitForEdge returns true only for an edge in the armed direction:
\* never with edge = NoEdge, never for High-to-Low with RisingEdge, never
\* for Low-to-High with FallingEdge.
C8_OnlyArmedEdge ==
    [][(op'.name = "WaitForEdge" /\ op'.ret)
          => /\ edge # NoEdge
             /\ ~(edge = RisingEdge /\ L = High /\ L' = Low)
             /\ ~(edge = FallingEdge /\ L = Low /\ L' = High)]_vars

\* C9: in every state of a debounced pin at most one of isDenoising() and
\* isDebouncing() is non-zero.
C9_WindowsExclusive ==
    wrapped => ~(isDenoising # 0 /\ isDebouncing # 0)

\* C10: when Debounce is given a non-zero denoise or debounce and the raw
\* pin's In fails, Debounce returns that error and no pin, without reading
\* the pin and without calling now().
C10_InErrorPropagates ==
    (op.name = "Debounce" /\ (op.den # 0 \/ op.deb # 0) /\ op.inErr # "nil")
        => (op.err = op.inErr /\ op.pin = "nil"
            /\ op.reads = 0 /\ op.nows = 0 /\ ~wrapped)

\* C10 witness: Debounce(p, 1, 0, BothEdges) has just failed with errBusy.
C10_Witness ==
    /\ op.name = "Debounce" /\ op.den = 1 /\ op.deb = 0 /\ op.e = BothEdges
    /\ op.ins = 1 /\ op.inErr = "errBusy" /\ op.err = "errBusy"

\* C11: Real() on a decorated pin returns the innermost raw pin, for every
\* nesting of debounced and pollEdge decorators: the pin returned is the raw
\* pin the nesting was built over, and no decorator.
C11_RealIsInnermost ==
    got.pin # 0 => (got.real = objs[got.pin].root /\ objs[got.real].kind = "Pin")

\* C11 witness: Real() has returned the raw pin 2 for a debounced of a
\* pollEdge of a debounced of that pin.
C11_Witness ==
    /\ got.pin # 0 /\ got.real = 2
    /\ objs[got.pin].kind = "debounced"
    /\ objs[objs[got.pin].inner].kind = "pollEdge"
    /\ objs[objs[objs[got.pin].inner].inner].kind = "debounced"
    /\ objs[objs[objs[got.pin].inner].inner].inner = 2

\* A step of SpecPoll is a sample of WaitForEdge.
IsSample == pc = "loop" /\ call'.ticks = call.ticks + 1

\* C12: on a pollEdge built by PollEdge and used through In and
\* WaitForEdge, the first sample that finds the raw level changed makes
\* WaitForEdge return true.
C12_StepChangeDetected ==
    [][(~literal /\ IsSample /\ L # curr) => (pc' = "idle" /\ call'.ret)]_vars

\* C13: WaitForEdge armed for RisingEdge returns true only on a sample that
\* reads High after Low, and armed for FallingEdge only on a sample that
\* reads Low after High.
C13_OnlyArmedDirection ==
    [][(IsSample /\ pc' = "idle" /\ call'.ret) =>
         /\ (pedge = RisingEdge => (curr = Low /\ L = High))
         /\ (pedge = FallingEdge => (curr = High /\ L = Low))]_vars

\* C13 witness: armed for RisingEdge, WaitForEdge saw the level fall, took
\* another sample and returned true on the rise that followed.
C13_Witness ==
    /\ call.name = "WaitForEdge" /\ call.done /\ call.ret
    /\ pedge = RisingEdge
    /\ call.ticks = 3
    /\ call.prev = Low /\ call.n = High

C15_TimeoutTerminates ==
    /\ (pc = "loop" /\ call.timeout >= 0) ~> (pc = "idle")
    /\ [](pc = "loop" /\ call.timeout = -1 => timer = "none")
    /\ [][(pc = "loop" /\ pc' = "idle" /\ ~IsSample) => ~call'.ret]_vars

\* C15 witness: a WaitForEdge(0) with no edge armed has returned false on
\* its own timer without a sample.
C15_Witness ==
    /\ call.name = "WaitForEdge" /\ call.done /\ ~call.ret
    /\ call.timeout = 0 /\ call.ticks = 0 /\ call.fired
    /\ stale = 0

\* C16: pollEdge.In leaves no edge armed, calls the wrapped pin's In once
\* and returns its error, also when that error is not nil; and every
\* WaitForEdge starts from the level the pin has when it is called.
C16_InClearsEdge ==
    /\ [](call.name = "In" =>
            (pedge = NoEdge /\ call.err = call.inErr /\ call.ins = 1))
    /\ [][(pc = "idle" /\ pc' = "loop") => curr' = L]_vars

\* C16 witness: an edge was armed, the wrapped pin's In failed and the edge
\* is cleared; curr still holds the other level, from a call before.
C16_Witness ==
    /\ call.name = "In" /\ call.err = "errIO"
    /\ literal /\ pedge = NoEdge
    /\ curr # L

\* raster32 has returned, or ended in a panic.
Rastered == ras.stage = "out"

\* raster32 returned an error and both buffers are as they were.
Rejected ==
    /\ ras.err \notin {"nil", "panic: index out of range",
                       "fatal: stack overflow"}
    /\ ras.clear = ras.oldClear
    /\ ras.set = ras.oldSet

\* C17: raster32 with mask == 0 returns an error and leaves clear and set as
\* they were, for every stream variant and every pair of buffers.
C17_ZeroMaskRejected ==
    (Rastered /\ ras.mask = {}) => Rejected

\* C17 witness: a call with mask 0, a BitStream of two bytes not all zero
\* and two buffers of 16 words has returned.
C17_Witness ==
    /\ Rastered /\ ras.mask = {}
    /\ ras.s.type = "BitStream" /\ ras.s.bits = <<178, 255>>
    /\ ras.skip = 1
    /\ Len(ras.clear) = 16 /\ Len(ras.set) = 16

\* C18: raster32 returns an error and leaves both buffers as they were when
\* clear is empty, set is empty or their lengths differ, for every stream
\* variant.
C18_BadBuffersRejected ==
    (/\ Rastered
     /\ (Len(ras.oldClear) = 0 \/ Len(ras.oldSet) = 0
            \/ Len(ras.oldClear) # Len(ras.oldSet)))
    => Rejected

\* C18 witness: a call with a mask, a BitStream of one byte, replication 2,
\* a clear buffer of 16 words and a set buffer of 15 has returned.
C18_Witness ==
    /\ Rastered /\ ras.mask # {}
    /\ ras.s.type = "BitStream" /\ ras.s.bits = <<178>> /\ ras.skip = 2
    /\ Len(ras.oldClear) = 16 /\ Len(ras.oldSet) = 15

RECURSIVE Ones(_)
\* The number of 1 bits of the number b.
Ones(b) == IF b = 0 THEN 0 ELSE (b % 2) + Ones(b \div 2)

RECURSIVE OnesIn(_)
\* The number of 1 bits of the bytes bs.
OnesIn(bs) == IF bs = <<>> THEN 0 ELSE Ones(Head(bs)) + OnesIn(Tail(bs))

\* The words of the buffer b that hold the lane bits of mask.
Lane(b, mask) == {w \in 1..Len(b) : mask \subseteq b[w]}

\* A BitStream was rastered with a mask into two zeroed buffers of one
\* length, with room for every bit of it skip times.
BitsFit ==
    /\ Rastered
    /\ ras.s.type = "BitStream"
    /\ ras.mask # {}
    /\ Len(ras.oldClear) = Len(ras.oldSet)
    /\ \A w \in 1..Len(ras.oldClear) :
          ras.oldClear[w] = {} /\ ras.oldSet[w] = {}
    /\ Len(ras.oldClear) >= 8 * Len(ras.s.bits) * ras.skip

\* C19: a BitStream of n bits rastered with replication k into zeroed
\* buffers of at least n*k words puts the lane bit in k words of set for
\* each 1 bit, in k words of clear for each 0 bit, in n*k words in all and
\* in no word of both.
C19_LaneBitCount ==
    BitsFit =>
        LET n == 8 * Len(ras.s.bits)
            k == ras.skip
            ones == OnesIn(ras.s.bits)
            inSet == Lane(ras.set, ras.mask)
            inClear == Lane(ras.clear, ras.mask)
        IN  /\ Cardinality(inSet) = k * ones
            /\ Cardinality(inClear) = k * (n - ones)
            /\ Cardinality(inSet \cup inClear) = n * k
            /\ inSet \cap inClear = {}

\* C19 witness: the byte 0xB2 was rastered with replication 2 into buffers
\* of 17 words: 8 words of set and 8 of clear hold the lane bit.
C19_Witness ==
    /\ BitsFit
    /\ ras.s.bits = <<178>> /\ ras.skip = 2 /\ Len(ras.clear) = 17
    /\ Cardinality(Lane(ras.set, ras.mask)) = 8
    /\ Cardinality(Lane(ras.clear, ras.mask)) = 8

\* Bit number pos of the byte b, bit 0 the least significant.
BitOf(b, pos) == (b \div Pow2(pos)) % 2

\* Word w (counted from 0) of the buffers encodes the bit v: the lane bit is
\* in set and not in clear for 1, in clear and not in set for 0.
Encodes(w, v) ==
    IF v = 1
    THEN ras.mask \subseteq ras.set[w + 1] /\ ras.clear[w + 1] = {}
    ELSE ras.mask \subseteq ras.clear[w + 1] /\ ras.set[w + 1] = {}

\* C20: raster32 consumes the bits of a BitStream in the declared order:
\* for every byte i whose words the buffers have and every j in 0..7, the
\* words (8*i+j)*k .. (8*i+j)*k+k-1 encode bit 7-j of byte i when the stream
\* is not LSBF and bit j when it is.
C20_DeclaredOrder ==
    (/\ Rastered
     /\ ras.s.type = "BitStream"
     /\ ras.mask # {}
     /\ ras.skip >= 1
     /\ Len(ras.oldClear) = Len(ras.oldSet)
     /\ \A w \in 1..Len(ras.oldClear) :
           ras.oldClear[w] = {} /\ ras.oldSet[w] = {})
    => LET k == ras.skip IN
       \A i \in 0..(Len(ras.s.bits) - 1), j \in 0..7, r \in 0..(k - 1) :
          (8 * i + 8) * k <= Len(ras.clear) =>
              Encodes((8 * i + j) * k + r,
                      BitOf(ras.s.bits[i + 1],
                            IF ras.s.lsbf THEN j ELSE 7 - j))

\* C20 witness: the bytes 0xB2, 0xFF were rastered most significant bit
\* first into 16 words: word 1 is clear (bit 6 of 0xB2), word 6 is set
\* (bit 1), word 7 is clear (bit 0) and word 8 is set (bit 7 of 0xFF).
C20_Witness ==
    /\ Rastered /\ ras.err = "nil"
    /\ ras.s.type = "BitStream" /\ ras.s.bits = <<178, 255>> /\ ~ras.s.lsbf
    /\ ras.skip = 1 /\ ras.mask = {1} /\ Len(ras.clear) = 16
    /\ ras.clear[2] = {1} /\ ras.set[7] = {1} /\ ras.clear[8] = {1}
    /\ ras.set[9] = {1}

\* An EdgeStream was rastered by raster32 with a mask and two buffers of one
\* length, not empty.
EdgesRastered ==
    /\ Rastered
    /\ ras.s.type = "EdgeStream"
    /\ ras.mask # {}
    /\ Len(ras.oldClear) > 0
    /\ Len(ras.oldClear) = Len(ras.oldSet)

\* C21: with buffers long enough for the stream's duration, an EdgeStream
\* is refused as too coarse exactly when the resolution asked for is
\* greater than the stream's.
C21_TooCoarseWhenGreater ==
    (EdgesRastered /\ ras.resolution * Len(ras.oldClear) >= ras.s.dur)
    => (ras.err = "resolution is too coarse" <=> ras.resolution > ras.s.res)

\* C22: when the resolution asked for is no greater than the stream's, an
\* EdgeStream is refused as too short for the buffer, both buffers left as
\* they were, exactly when resolution * len(buffer) is less than the
\* stream's duration.
C22_TooShortWhenShorter ==
    (EdgesRastered /\ ras.resolution <= ras.s.res)
    => /\ ras.err = "buffer is too short"
            <=> ras.resolution * Len(ras.oldClear) < ras.s.dur
       /\ ras.err = "buffer is too short"
            => (ras.clear = ras.oldClear /\ ras.set = ras.oldSet)

\* The level of the signal of an EdgeStream at time t: High at the start,
\* changed by every edge up to t.
LevelAt(edges, t) ==
    Cardinality({i \in 1..Len(edges) : edges[i] <= t}) % 2 = 0

\* C23: when raster32 returns nil for an EdgeStream, every slot holds the
\* level the edges give at the slot's time: the lane bit is in set where
\* that level is High and in clear where it is Low.
C23_SlotsFollowEdges ==
    (EdgesRastered /\ ras.err = "nil")
    => \A w \in 0..(Len(ras.clear) - 1) :
          IF LevelAt(ras.s.edges, w * ras.resolution) = High
          THEN ras.mask \subseteq ras.set[w + 1]
          ELSE ras.mask \subseteq ras.clear[w + 1]

\* raster32 was called with a mask and two buffers of one length, not empty.
ValidRaster32 ==
    /\ Rastered
    /\ ras.mask # {}
    /\ Len(ras.oldClear) > 0
    /\ Len(ras.oldClear) = Len(ras.oldSet)

\* The call of the function fn has returned, or ended in a panic.
Returned(fn) == bcall.stage = "out" /\ bcall.fn = fn

\* C24: raster32, with a mask and buffers that pass its tests, and raster
\* return the "implement me" error for a Program.
C24_ProgramNotImplemented ==
    /\ (ValidRaster32 /\ ras.s.type = "Program") => ras.err = "implement me"
    /\ (Returned("raster") /\ bcall.s.type = "Program")
            => bcall.err = "implement me"

\* C25: raster32, with a mask and buffers that pass its tests, and raster
\* return the "unknown stream type" error for every stream that is of none
\* of the types of their type switch, and leave the buffers and out as they
\* were.
C25_UnknownTypeRejected ==
    /\ (ValidRaster32
           /\ ras.s.type \notin {"BitStream", "EdgeStream", "Program"})
       => (ras.err = "unknown stream type"
              /\ ras.clear = ras.oldClear /\ ras.set = ras.oldSet)
    /\ (Returned("raster")
           /\ bcall.s.type \notin {"BitStreamLSB", "EdgeStream", "Program"})
       => (bcall.err = "unknown stream type" /\ bcall.out = bcall.old)

\* C25 witness: raster was given a BitStream of two bytes, which is no type
\* of its switch, and an out of two bytes, and has returned.
C25_Witness ==
    /\ Returned("raster")
    /\ bcall.s.type = "BitStream" /\ bcall.s.bits = <<178, 255>>
    /\ bcall.old.bits = <<0, 0>>
    /\ bcall.err = "unknown stream type"

\* rasterBits was reached: raster has returned for a BitStreamLSB.
BitsRastered == Returned("raster") /\ bcall.s.type = "BitStreamLSB"

\* out is long enough for the stream.
LongEnough == bcall.s.dur <= bcall.old.res * 8 * Len(bcall.old.bits)

\* C26: rasterBits returns an error and leaves out as it was when the
\* resolutions of out and of the stream differ and when the stream lasts
\* longer than out.Res * 8 * len(out.Bits); otherwise it returns nil and
\* out.Bits starts with the bytes of the stream, the bytes after them and
\* the resolution as they were.
C26_RasterBitsCopies ==
    BitsRastered =>
        IF bcall.old.res # bcall.s.res \/ ~LongEnough
        THEN bcall.err # "nil" /\ bcall.out = bcall.old
        ELSE /\ bcall.err = "nil"
             /\ bcall.out.res = bcall.old.res
             /\ Len(bcall.out.bits) = Len(bcall.old.bits)
             /\ \A i \in 1..Len(bcall.out.bits) :
                   bcall.out.bits[i] = IF i <= Len(bcall.s.bits)
                                       THEN bcall.s.bits[i]
                                       ELSE bcall.old.bits[i]

\* C26 witness: a stream of two bytes and resolution 2 was refused for an
\* out of two bytes and resolution 1, which it would have fitted had the
\* resolutions not been compared.
C26_Witness ==
    /\ BitsRastered
    /\ bcall.s.bits = <<178, 255>> /\ bcall.s.res = 2
    /\ bcall.old.bits = <<0, 0>> /\ bcall.old.res = 1
    /\ bcall.err # "nil" /\ bcall.out = bcall.old

\* C27: copyStreamToDMABuf returns an error and leaves dst as it was for a
\* BitStream with LSBF set, for an EdgeStream and for every stream of
\* another type than BitStream.
C27_CopyRejectsUnsupported ==
    (Returned("copyStreamToDMABuf")
        /\ (bcall.s.type # "BitStream" \/ bcall.s.lsbf))
    => /\ bcall.err \notin {"nil", "panic: index out of range"}
       /\ bcall.out = bcall.old

\* C27 witness: a BitStream of two bytes with LSBF set was refused for a
\* dst of one word, which holds what it held.
C27_Witness ==
    /\ Returned("copyStreamToDMABuf")
    /\ bcall.s.type = "BitStream" /\ bcall.s.lsbf
    /\ bcall.s.bits = <<178, 255>>
    /\ bcall.old = <<<<255, 255, 255, 255>>>> /\ bcall.out = bcall.old
    /\ bcall.err = "TODO(simokawa): handle BitStream.LSBF"

\* The words of the buffer b are those of the buffer old with, in some of
\* them, bits of mask added.
OnlyMaskAdded(b, old, mask) ==
    /\ Len(b) = Len(old)
    /\ \A w \in 1..Len(b) : old[w] \subseteq b[w] /\ b[w] \ mask = old[w] \ mask

\* C30: whatever raster32 is called with and however the call ends, every
\* word of clear and of set holds outside mask the bits it held before, and
\* no bit it held is lost.
C30_OtherLanesKept ==
    Rastered => /\ OnlyMaskAdded(ras.clear, ras.oldClear, ras.mask)
                /\ OnlyMaskAdded(ras.set, ras.oldSet, ras.mask)

\* C30 witness: the byte 0xB2 was rastered with replication 2 and the mask
\* of bits 0 and 2 into words that held bits 1 and 3: the first word of set
\* and the third of clear hold all four.
C30_Witness ==
    /\ Rastered /\ ras.err = "nil"
    /\ ras.s.type = "BitStream" /\ ras.s.bits = <<178>> /\ ras.skip = 2
    /\ ras.mask = {0, 2} /\ ras.oldSet[1] = {1, 3}
    /\ ras.set[1] = {0, 1, 2, 3} /\ ras.clear[1] = {1, 3}
    /\ ras.clear[3] = {0, 1, 2, 3} /\ ras.set[3] = {1, 3}

\* The goroutine p has a call that began after a Register had returned nil
\* and that has returned.
LaterCall(p) ==
    /\ dcall[p].pc = "idle"
    /\ dcall[p].fn # "none"
    /\ dcall[p].after.done

\* C28: once a Register has returned nil, every Register that begins later
\* returns an error, the controller stays the one given to that first
\* Register, and every Get that begins later returns it.
C28_RegisterOnce ==
    /\ firstOk.done => controller = firstOk.c
    /\ \A p \in Procs :
          LaterCall(p) =>
             IF dcall[p].fn = "Register"
             THEN dcall[p].err # "nil"
             ELSE dcall[p].err = "nil" /\ dcall[p].ret = dcall[p].after.c

\* C29: an Open that begins after an Inhibit has returned never reaches
\* os.OpenFile and returns the error of inhibited file I/O; and an Inhibit
\* that begins after an Open has come back from os.OpenFile does not
\* return: it ends in the panic.
C29_InhibitStopsOpen ==
    \A p \in Procs :
       /\ (fcall[p].fn = "Open" /\ fcall[p].after) =>
             /\ fcall[p].pc # "openfile"
             /\ fcall[p].out \in {"none", "file I/O is inhibited"}
             /\ fcall[p].pc = "idle" => fcall[p].out = "file I/O is inhibited"
       /\ (fcall[p].fn = "Inhibit" /\ fcall[p].afterOpen) =>
             /\ fcall[p].out \in {"none", "panic"}
             /\ fcall[p].pc = "idle" => fcall[p].out = "panic"

\* C29 witness: Inhibit has returned in one goroutine, and an Open that
\* another began afterwards has returned the error.
C29_Witness ==
    \E p, q \in Procs :
       /\ fcall[p].fn = "Inhibit" /\ fcall[p].out = "returned"
       /\ fcall[q].fn = "Open" /\ fcall[q].after
       /\ fcall[q].pc = "idle" /\ fcall[q].out = "file I/O is inhibited"
       /\ ~used

\* C31: a BitStream rastered with skip >= 1 into buffers that pass the
\* tests of raster32 never writes at an index the buffers do not have: the
\* call returns nil and does not end in an index out of range.
C31_BitsStayInBuffers ==
    (ValidRaster32 /\ ras.s.type = "BitStream" /\ ras.skip >= 1)
        => ras.err = "nil"

\* C32: a debounced.Read that finds the raw level equal to steady returns
\* steady without a call of now(), leaves steady and lastSteady as they
\* were, sets lastGlitch to lastSteady when lastGlitch was later than
\* lastSteady and leaves lastGlitch as it was otherwise.
C32_ReadFastPath ==
    [][(op'.name = "Read" /\ L = steady) =>
          /\ op'.ret = steady
          /\ op'.nows = 0
          /\ steady' = steady
          /\ lastSteady' = lastSteady
          /\ lastGlitch' = IF lastGlitch > lastSteady THEN lastSteady
                           ELSE lastGlitch]_vars

\* C32 witness: a Read found the raw level equal to steady with a glitch
\* pending, and has set lastGlitch back to lastSteady.
C32_Witness ==
    /\ op.name = "Read" /\ op.zap
    /\ op.nows = 0 /\ op.ret = steady /\ L = steady
    /\ lastGlitch = lastSteady

\* C33: debounced.In calls the raw pin's In once, with BothEdges whatever
\* edge is asked for, records the edge asked for in d.edge, sets lastSteady
\* and lastGlitch to the present value of the clock, and returns the error
\* the raw pin's In returned; and a Debounce that returns a wrapper has
\* configured the raw pin with BothEdges and leaves lastSteady and
\* lastGlitch at the present value of the clock.
C33_InConfiguresBothEdges ==
    /\ op.name = "In" =>
          /\ op.ins = 1 /\ op.inEdge = BothEdges
          /\ edge = op.e
          /\ lastSteady = clock /\ lastGlitch = clock
          /\ op.err = op.inErr
    /\ (op.name = "Debounce" /\ op.pin = "debounced") =>
          /\ op.ins = 1 /\ op.inEdge = BothEdges
          /\ edge = op.e
          /\ lastSteady = clock /\ lastGlitch = clock

\* C33 witness: In was asked for RisingEdge later than the wrapper was
\* built, the raw pin's In failed, and the error came back with both
\* timestamps reset.
C33_Witness ==
    /\ op.name = "In" /\ op.e = RisingEdge /\ op.inEdge = BothEdges
    /\ op.err = "errIO" /\ edge = RisingEdge
    /\ clock > 0 /\ lastSteady = clock /\ lastGlitch = clock

\* C34: when debounced.In has returned, and when Debounce has returned a
\* wrapper, steady is the level the raw pin had during the call.
C34_SeededFromRawLevel ==
    /\ op.name = "In" => steady = L
    /\ (op.name = "Debounce" /\ op.pin = "debounced") => steady = L

\* The armed edge e covers a change of level from a to b.
ArmedFor(e, a, b) ==
    \/ e = BothEdges /\ a # b
    \/ e = RisingEdge /\ a = Low /\ b = High
    \/ e = FallingEdge /\ a = High /\ b = Low

Packed(bits, i, k) ==
    [j \in 1..4 |-> IF j <= k THEN bits[i + j] ELSE 0]

\* C36: for a BitStream of b bytes that is not LSBF, copyStreamToDMABuf
\* returns nil without indexing past the end of dst; word i of dst is the
\* big-endian value of the bytes 4i..4i+3 for every full group of four
\* bytes, the word after them holds the 1 to 3 bytes left over in its
\* high-order bytes and zero below, and every other word of dst is as it
\* was.
C36_CopyPacksBigEndian ==
    (Returned("copyStreamToDMABuf")
        /\ bcall.s.type = "BitStream" /\ ~bcall.s.lsbf)
    => LET bits == bcall.s.bits
           full == Len(bits) \div 4
           rest == Len(bits) % 4
           words == IF rest > 0 THEN full + 1 ELSE full
       IN  /\ bcall.err = "nil"
           /\ Len(bcall.out) = Len(bcall.old)
           /\ words <= Len(bcall.out)
           /\ \A i \in 0..(full - 1) :
                 bcall.out[i + 1] = Packed(bits, 4 * i, 4)
           /\ rest > 0 => bcall.out[full + 1] = Packed(bits, 4 * full, rest)
           /\ \A i \in (words + 1)..Len(bcall.out) :
                 bcall.out[i] = bcall.old[i]

\* C37: in Tx and TxPackets CS is at the active level while the wrapped
\* transfer runs; when the Out that drives CS active fails, no transfer is
\* made and that error is returned; when the transfer was made, CS is at
\* the inactive level once the call has returned, whatever the transfer
\* returned; and CS is at the inactive level after a DevParams that
\* returned nil.
C37_ChipSelectBrackets ==
    /\ scall.pc \in {"transfer", "deferred"} => cs = active
    /\ (scall.fn \in {"Tx", "TxPackets"} /\ scall.csErr # "nil") =>
          (scall.pc = "idle" /\ scall.txs = 0 /\ scall.err = scall.csErr)
    /\ (scall.fn \in {"Tx", "TxPackets"} /\ scall.pc = "idle"
           /\ scall.txs > 0) => cs = ~active
    /\ (scall.fn = "DevParams" /\ scall.err = "nil") => cs = ~active

\* The pin p is on a header of the map headers.
OnHeader(p, headers) ==
    \E h \in DOMAIN headers : \E i \in 1..Len(headers[h]) :
        realPin(headers[h][i]) = realPin(p)

\* C38: after an Unregister(name) that returned nil, All() has no header
\* of that name and Position is ("", 0), the position of a pin that
\* internal.ByPin does not have, for every pin of the header that is on no
\* other header; and after a Register that returned an error,
\* the headers and the positions of the pins are what they were before
\* the call.
C38_UnregisterRemovesAll ==
    [][/\ (rcall'.fn = "Unregister" /\ rcall'.err = "nil") =>
             /\ rcall'.name \notin DOMAIN AllHeaders'
             /\ \A i \in 1..Len(AllHeaders[rcall'.name]) :
                   LET p == AllHeaders[rcall'.name][i] IN
                   ~OnHeader(p, AllHeaders') =>
                       realPin(p) \notin DOMAIN ByPin'
       /\ (rcall'.fn = "Register" /\ rcall'.err # "nil") =>
             /\ AllHeaders' = AllHeaders
             /\ ByPin' = ByPin]_vars

\* C39: fs.mu is held only by a goroutine that is inside Open or Inhibit,
\* between mu.Lock() and mu.Unlock(): no call has ended, by return or by
\* panic, with mu still held, so that a later call can take it.
C39_MutexReleasedOnExit ==
    \A p \in Procs : fmu = p => fcall[p].pc = "test"

====
